---- MODULE Spec2Model ----
(***************************************************************************)
(* Model of the callback registries of gulitsky/hook:                      *)
(*   "hook"     the retaining Registry      (hook.go 19-129)               *)
(*   "clear"    the clearing Registry       (hook.go 146-240)              *)
(*   "shutdown" the shutdowner              (shutdown.go 18-97)            *)
(* One registry of one variant, MaxRuns calls of Run/Shutdown on it, each  *)
(* with its own context, result channel and tasks, and callers that Add    *)
(* and Clear concurrently.                                                 *)
(*                                                                         *)
(* A callback is identified by its registration number (the k-th callback  *)
(* ever added is k).  What a callback does when invoked (return nil,       *)
(* return its error, panic, or never return) is the environment's choice   *)
(* at the time the task finishes.                                          *)
(*                                                                         *)
(* The registry's slice is its length flen over the backing array; lists   *)
(* stay within the array's capacity, so append writes in place.  The       *)
(* shutdowner's slice starts nil and is reset to nil; nothing aliases its  *)
(* array, so its capacity is not observable and it shares the layout.      *)
(***************************************************************************)
EXTENDS Integers, Sequences, FiniteSets, TLC

\* ---- bounds of the model ----
MaxRuns == 2        \* Run/Shutdown calls
MaxLen == 3         \* longest list (must stay <= InitCap: append never reallocates)
MaxAdds == 4        \* callbacks ever registered
MaxAddArgs == 2     \* callbacks passed to one Add
ConcLen == 2        \* longest list under SpecConc
ConcAdds == 2       \* callbacks ever registered under SpecConc
MaxNews == 3        \* New()/Default() calls under SpecNew

\* make([]HookFunc, 0, 10)
InitCap == 10

Runs == 1..MaxRuns
Variants == {"hook", "clear", "shutdown"}
Cells == 1..InitCap
NoFn == 0

VARIABLES
    variant,    \* which of the three registries this is
    backing,    \* the backing array of the registry's slice
    flen,       \* len(r.hooks) / len(r.funcs) / len(s.funcs)
    nextId,     \* registration number of the next callback added
    mu,         \* the mutex: 0 free, else the run that holds it
    crashed,    \* an unrecovered panic has terminated the process
    pc,         \* position of each Run/Shutdown call
    cancelled,  \* ctx.Err() != nil, per call
    snapLen,    \* len(hooks) / len(funcs) of the call's snapshot
    hooks,      \* the call's private copy (retaining Run only)
    idx,        \* the launch loop's i (1-based)
    tasks,      \* the goroutines the call has launched, in launch order
    errCh,      \* buffered result channel contents
    closed,     \* result channel closed
    hookErrs,   \* errors the coordinator has collected
    result,     \* what the call returned
    atSnap,     \* history: the registered list at the call's snapshot
    removed,    \* history: callbacks removed by Clear or by a run's clearing step
    heap,       \* the registries allocated by the constructors, by address
    handle,     \* what each New()/Default() call returned
    inst        \* the package's instance pointer (inst / defaultRegistry), 0 = nil

vars == <<variant, backing, flen, nextId, mu, crashed, pc, cancelled, snapLen,
          hooks, idx, tasks, errCh, closed, hookErrs, result, atSnap,
          removed, heap, handle, inst>>

ctorVars == <<heap, handle, inst>>
regVars == <<backing, flen, nextId, removed, ctorVars>>
runVars == <<pc, snapLen, hooks, idx, tasks, errCh, closed, hookErrs, result, atSnap>>

\* ---- error values ----
CtxErr == [kind |-> "ctx", cb |-> 0]
FnErr(cb) == [kind |-> "err", cb |-> cb]
\* fmt.Errorf("hook function panic: %v", r)
PanicErr(cb) == [kind |-> "panic", cb |-> cb]

NoResult == [kind |-> "none", errs |-> <<>>]
NilResult == [kind |-> "nil", errs |-> <<>>]
Bare(e) == [kind |-> "bare", errs |-> <<e>>]
\* errors.Join: nil when there is no non-nil error
Join(s) == IF s = <<>> THEN NilResult ELSE [kind |-> "join", errs |-> s]

\* the registered list: r.hooks[0:len]
List == [k \in 1..flen |-> backing[k]]
\* Len()
RegLen == flen

Init ==
    /\ variant \in Variants
    /\ backing = [c \in Cells |-> NoFn]
    /\ flen = 0
    /\ nextId = 1
    /\ mu = 0
    /\ crashed = FALSE
    /\ pc = [r \in Runs |-> "idle"]
    /\ cancelled = [r \in Runs |-> FALSE]
    /\ snapLen = [r \in Runs |-> 0]
    /\ hooks = [r \in Runs |-> <<>>]
    /\ idx = [r \in Runs |-> 0]
    /\ tasks = [r \in Runs |-> <<>>]
    /\ errCh = [r \in Runs |-> <<>>]
    /\ closed = [r \in Runs |-> FALSE]
    /\ hookErrs = [r \in Runs |-> <<>>]
    /\ result = [r \in Runs |-> NoResult]
    /\ atSnap = [r \in Runs |-> <<>>]
    /\ removed = 0
    /\ heap = <<>>
    /\ handle = <<>>
    /\ inst = 0

\* ---- registration ----

\* append(r.funcs, funcs...) within capacity: writes the cells after len
AppendFuncs(k) ==
    [c \in Cells |-> IF c > flen /\ c <= flen + k THEN nextId + (c - flen - 1)
                     ELSE backing[c]]

\* mutant: Add appends only its first argument (funcs[0], not funcs...)
Add_FirstOnly(k) ==
    /\ ~crashed
    /\ mu = 0
    /\ flen + k <= MaxLen
    /\ nextId + k - 1 <= MaxAdds
    /\ backing' = AppendFuncs(IF k > 0 THEN 1 ELSE 0)
    /\ flen' = flen + (IF k > 0 THEN 1 ELSE 0)
    /\ nextId' = nextId + k
    /\ UNCHANGED <<variant, mu, crashed, cancelled, runVars, removed, ctorVars>>

\* Lock; r.hooks = append(r.hooks, funcs...); Unlock
Add(k) ==
    /\ ~crashed
    /\ mu = 0
    /\ flen + k <= MaxLen
    /\ nextId + k - 1 <= MaxAdds
    /\ backing' = AppendFuncs(k)
    /\ flen' = flen + k
    /\ nextId' = nextId + k
    /\ UNCHANGED <<variant, mu, crashed, cancelled, runVars, removed, ctorVars>>

\* hook: r.hooks = r.hooks[:0] keeps the array; shutdown: s.funcs = nil
Clear ==
    /\ ~crashed
    /\ mu = 0
    /\ variant \in {"hook", "shutdown"}
    /\ flen' = 0
    /\ backing' = IF variant = "shutdown" THEN [c \in Cells |-> NoFn] ELSE backing
    /\ removed' = removed + flen
    /\ UNCHANGED <<variant, nextId, mu, crashed, cancelled, runVars, ctorVars>>

\* the caller's cancel(), or the deadline expiring
Cancel(r) ==
    /\ ~crashed
    /\ ~cancelled[r]
    /\ pc[r] # "done"
    /\ cancelled' = [cancelled EXCEPT ![r] = TRUE]
    /\ UNCHANGED <<variant, regVars, mu, crashed, runVars>>

\* ---- tasks ----
Task(cb) == [cb |-> cb, st |-> "running", out |-> "none"]

Launched(r) == Len(tasks[r])
NotDone(r) == Cardinality({k \in 1..Len(tasks[r]) : tasks[r][k].st # "done"})

\* the error a finished task hands to the channel (out = "nil": none)
TaskErr(t) == IF t.out = "err" THEN FnErr(t.cb) ELSE PanicErr(t.cb)

\* mutant: the result channel has room for one value less than the snapshot
Send_SmallerBuffer(r, k, out) ==
    IF closed[r]
    THEN /\ crashed' = TRUE
         /\ tasks' = [tasks EXCEPT ![r][k].out = out, ![r][k].st = "panicked"]
         /\ UNCHANGED errCh
    ELSE IF Len(errCh[r]) < snapLen[r] - 1
    THEN /\ errCh' = [errCh EXCEPT ![r] = Append(@, TaskErr([tasks[r][k] EXCEPT !.out = out]))]
         /\ tasks' = [tasks EXCEPT ![r][k].out = out, ![r][k].st = "done"]
         /\ UNCHANGED crashed
    ELSE /\ tasks' = [tasks EXCEPT ![r][k].out = out, ![r][k].st = "sendblocked"]
         /\ UNCHANGED <<errCh, crashed>>

\* errCh <- e from task k: a buffered send; it blocks when the buffer is
\* full and panics when the channel is closed
Send(r, k, out) ==
    IF closed[r]
    THEN /\ crashed' = TRUE
         /\ tasks' = [tasks EXCEPT ![r][k].out = out, ![r][k].st = "panicked"]
         /\ UNCHANGED errCh
    ELSE IF Len(errCh[r]) < snapLen[r]
    THEN /\ errCh' = [errCh EXCEPT ![r] = Append(@, TaskErr([tasks[r][k] EXCEPT !.out = out]))]
         /\ tasks' = [tasks EXCEPT ![r][k].out = out, ![r][k].st = "done"]
         /\ UNCHANGED crashed
    ELSE /\ tasks' = [tasks EXCEPT ![r][k].out = out, ![r][k].st = "sendblocked"]
         /\ UNCHANGED <<errCh, crashed>>

\* mutant: the task has no deferred recover, a panic terminates the process
HookTask_NoRecover(r, k, out) ==
    /\ ~crashed
    /\ variant = "hook"
    /\ k \in 1..Len(tasks[r])
    /\ tasks[r][k].st = "running"
    /\ IF out = "nil"
       THEN /\ tasks' = [tasks EXCEPT ![r][k].out = out, ![r][k].st = "done"]
            /\ UNCHANGED <<errCh, crashed>>
       ELSE IF out = "panic"
       THEN /\ crashed' = TRUE
            /\ tasks' = [tasks EXCEPT ![r][k].out = out, ![r][k].st = "panicked"]
            /\ UNCHANGED errCh
       ELSE Send(r, k, out)
    /\ UNCHANGED <<variant, regVars, mu, cancelled, pc, snapLen, hooks, idx,
                   closed, hookErrs, result, atSnap>>

\* go func(fn HookFunc) of the retaining Run: fn returns or panics, the
\* deferred recover turns a panic into an error, the error is sent and the
\* deferred wg.Done() runs
HookTask_Return(r, k, out) ==
    /\ ~crashed
    /\ variant = "hook"
    /\ k \in 1..Len(tasks[r])
    /\ tasks[r][k].st = "running"
    /\ IF out = "nil"
       THEN /\ tasks' = [tasks EXCEPT ![r][k].out = out, ![r][k].st = "done"]
            /\ UNCHANGED <<errCh, crashed>>
       ELSE Send(r, k, out)
    /\ UNCHANGED <<variant, regVars, mu, cancelled, pc, snapLen, hooks, idx,
                   closed, hookErrs, result, atSnap>>

\* go func(fn HookFunc) of the clearing Run
ClearTask_Return(r, k, out) ==
    /\ ~crashed
    /\ variant = "clear"
    /\ k \in 1..Len(tasks[r])
    /\ tasks[r][k].st = "running"
    /\ IF out = "nil"
       THEN /\ tasks' = [tasks EXCEPT ![r][k].out = out, ![r][k].st = "done"]
            /\ UNCHANGED <<errCh, crashed>>
       ELSE Send(r, k, out)
    /\ UNCHANGED <<variant, regVars, mu, cancelled, pc, snapLen, hooks, idx,
                   closed, hookErrs, result, atSnap>>

\* go func(fn ShutdownFunc) of Shutdown: no recover, a panic in fn
\* terminates the process
ShutdownTask_Return(r, k, out) ==
    /\ ~crashed
    /\ variant = "shutdown"
    /\ k \in 1..Len(tasks[r])
    /\ tasks[r][k].st = "running"
    /\ IF out = "nil"
       THEN /\ tasks' = [tasks EXCEPT ![r][k].out = out, ![r][k].st = "done"]
            /\ UNCHANGED <<errCh, crashed>>
       ELSE IF out = "panic"
       THEN /\ crashed' = TRUE
            /\ tasks' = [tasks EXCEPT ![r][k].out = out, ![r][k].st = "panicked"]
            /\ UNCHANGED errCh
       ELSE Send(r, k, out)
    /\ UNCHANGED <<variant, regVars, mu, cancelled, pc, snapLen, hooks, idx,
                   closed, hookErrs, result, atSnap>>

\* ---- the retaining Registry.Run ----

\* mutant: the retaining Run does not look at ctx.Err() before launching
HookRun_SnapshotNoCtxCheck(r) ==
    /\ ~crashed
    /\ variant = "hook"
    /\ pc[r] = "idle"
    /\ mu = 0
    /\ hooks' = [hooks EXCEPT ![r] = List]
    /\ atSnap' = [atSnap EXCEPT ![r] = List]
    /\ snapLen' = [snapLen EXCEPT ![r] = flen]
    /\ idx' = [idx EXCEPT ![r] = flen]
    /\ IF flen = 0
       THEN /\ pc' = [pc EXCEPT ![r] = "done"]
            /\ result' = [result EXCEPT ![r] = NilResult]
       ELSE /\ pc' = [pc EXCEPT ![r] = "loop"]
            /\ UNCHANGED result
    /\ UNCHANGED <<variant, regVars, mu, crashed, cancelled, tasks, errCh,
                   closed, hookErrs>>

\* mutant: the retaining Run empties the list when it takes its snapshot
HookRun_SnapshotAndClear(r) ==
    /\ ~crashed
    /\ variant = "hook"
    /\ pc[r] = "idle"
    /\ mu = 0
    /\ hooks' = [hooks EXCEPT ![r] = List]
    /\ atSnap' = [atSnap EXCEPT ![r] = List]
    /\ snapLen' = [snapLen EXCEPT ![r] = flen]
    /\ idx' = [idx EXCEPT ![r] = flen]
    /\ flen' = 0
    /\ removed' = removed + flen
    /\ IF flen = 0
       THEN /\ pc' = [pc EXCEPT ![r] = "done"]
            /\ result' = [result EXCEPT ![r] = NilResult]
       ELSE IF cancelled[r]
       THEN /\ pc' = [pc EXCEPT ![r] = "done"]
            /\ result' = [result EXCEPT ![r] = Bare(CtxErr)]
       ELSE /\ pc' = [pc EXCEPT ![r] = "loop"]
            /\ UNCHANGED result
    /\ UNCHANGED <<variant, backing, nextId, mu, crashed, cancelled, tasks,
                   errCh, closed, hookErrs, ctorVars>>

\* Lock; copy; Unlock; the two early returns
HookRun_Snapshot(r) ==
    /\ ~crashed
    /\ variant = "hook"
    /\ pc[r] = "idle"
    /\ mu = 0
    /\ hooks' = [hooks EXCEPT ![r] = List]
    /\ atSnap' = [atSnap EXCEPT ![r] = List]
    /\ snapLen' = [snapLen EXCEPT ![r] = flen]
    /\ idx' = [idx EXCEPT ![r] = flen]
    /\ IF flen = 0
       THEN /\ pc' = [pc EXCEPT ![r] = "done"]
            /\ result' = [result EXCEPT ![r] = NilResult]
       ELSE IF cancelled[r]
       THEN /\ pc' = [pc EXCEPT ![r] = "done"]
            /\ result' = [result EXCEPT ![r] = Bare(CtxErr)]
       ELSE /\ pc' = [pc EXCEPT ![r] = "loop"]
            /\ UNCHANGED result
    /\ UNCHANGED <<variant, regVars, mu, crashed, cancelled, tasks, errCh,
                   closed, hookErrs>>

\* mutant: the snapshot aliases the registry's backing array
HookRun_FnAlias(r, i) == backing[i]

\* hooks[i]: the call's own copy
HookRun_Fn(r, i) == hooks[r][i]

\* one iteration of for i := len(hooks) - 1; i >= 0; i--
HookRun_Launch(r) ==
    /\ ~crashed
    /\ variant = "hook"
    /\ pc[r] = "loop"
    /\ tasks' = [tasks EXCEPT ![r] = Append(@, Task(HookRun_Fn(r, idx[r])))]
    /\ idx' = [idx EXCEPT ![r] = @ - 1]
    /\ pc' = [pc EXCEPT ![r] = IF idx[r] = 1 THEN "wait" ELSE "loop"]
    /\ UNCHANGED <<variant, regVars, mu, crashed, cancelled, snapLen, hooks,
                   errCh, closed, hookErrs, result, atSnap>>

\* mutant: the coordinator also stops waiting when the context is cancelled
HookRun_WaitOrCancel(r) ==
    \/ snapLen[r] - (Launched(r) - NotDone(r)) = 0
    \/ cancelled[r]

\* wg.Add(len(hooks)) ... wg.Wait(): every task has called Done
HookRun_WaitDone(r) == snapLen[r] - (Launched(r) - NotDone(r)) = 0

\* wg.Wait(); close(errChan); for err := range errChan {...};
\* return errors.Join(hookErrs...)
HookRun_Collect(r) ==
    /\ ~crashed
    /\ variant = "hook"
    /\ pc[r] = "wait"
    /\ HookRun_WaitDone(r)
    /\ closed' = [closed EXCEPT ![r] = TRUE]
    /\ hookErrs' = [hookErrs EXCEPT ![r] = errCh[r]]
    /\ errCh' = [errCh EXCEPT ![r] = <<>>]
    /\ result' = [result EXCEPT ![r] = Join(errCh[r])]
    /\ pc' = [pc EXCEPT ![r] = "done"]
    /\ UNCHANGED <<variant, regVars, mu, crashed, cancelled, snapLen, hooks,
                   idx, tasks, atSnap>>

\* ---- the clearing Registry.Run ----

\* Lock; funcs := r.funcs; r.funcs = r.funcs[:0]; Unlock; early returns.
\* funcs shares the registry's backing array.
ClearRun_Snapshot(r) ==
    /\ ~crashed
    /\ variant = "clear"
    /\ pc[r] = "idle"
    /\ mu = 0
    /\ atSnap' = [atSnap EXCEPT ![r] = List]
    /\ snapLen' = [snapLen EXCEPT ![r] = flen]
    /\ idx' = [idx EXCEPT ![r] = flen]
    /\ flen' = 0
    /\ removed' = removed + flen
    /\ IF flen = 0
       THEN /\ pc' = [pc EXCEPT ![r] = "done"]
            /\ result' = [result EXCEPT ![r] = NilResult]
       ELSE IF cancelled[r]
       THEN /\ pc' = [pc EXCEPT ![r] = "done"]
            /\ result' = [result EXCEPT ![r] = Bare(CtxErr)]
       ELSE /\ pc' = [pc EXCEPT ![r] = "loop"]
            /\ UNCHANGED result
    /\ UNCHANGED <<variant, backing, nextId, mu, crashed, cancelled, hooks,
                   tasks, errCh, closed, hookErrs, ctorVars>>

\* fn := funcs[i]: an unsynchronised read of the shared backing array; it
\* races with the write of a concurrent Add and yields the cell's current
\* value or the one it had when the snapshot was taken
ClearRun_Fn(r, i) == {backing[i], atSnap[r][i]}

\* a loop iteration with ctx.Err() == nil: wg.Add(1); go func(fn)
ClearRun_Launch(r) ==
    /\ ~crashed
    /\ variant = "clear"
    /\ pc[r] = "loop"
    /\ ~cancelled[r]
    /\ \E fn \in ClearRun_Fn(r, idx[r]) :
          tasks' = [tasks EXCEPT ![r] = Append(@, Task(fn))]
    /\ idx' = [idx EXCEPT ![r] = @ - 1]
    /\ pc' = [pc EXCEPT ![r] = IF idx[r] = 1 THEN "wait" ELSE "loop"]
    /\ UNCHANGED <<variant, regVars, mu, crashed, cancelled, snapLen, hooks,
                   errCh, closed, hookErrs, result, atSnap>>

\* a loop iteration with ctx.Err() != nil: errorCh <- err; break
ClearRun_Break(r) ==
    /\ ~crashed
    /\ variant = "clear"
    /\ pc[r] = "loop"
    /\ cancelled[r]
    /\ Len(errCh[r]) < snapLen[r]
    /\ errCh' = [errCh EXCEPT ![r] = Append(@, CtxErr)]
    /\ pc' = [pc EXCEPT ![r] = "wait"]
    /\ UNCHANGED <<variant, regVars, mu, crashed, cancelled, snapLen, hooks,
                   idx, tasks, closed, hookErrs, result, atSnap>>

\* wg.Add(1) per launched task ... wg.Wait()
ClearRun_WaitDone(r) == NotDone(r) = 0

\* wg.Wait(); close(errorCh); for err := range errorCh {...};
\* nil if none, else errors.Join(hookErrs...)
ClearRun_Collect(r) ==
    /\ ~crashed
    /\ variant = "clear"
    /\ pc[r] = "wait"
    /\ ClearRun_WaitDone(r)
    /\ closed' = [closed EXCEPT ![r] = TRUE]
    /\ hookErrs' = [hookErrs EXCEPT ![r] = errCh[r]]
    /\ errCh' = [errCh EXCEPT ![r] = <<>>]
    /\ result' = [result EXCEPT ![r] =
                     IF Len(errCh[r]) = 0 THEN NilResult ELSE Join(errCh[r])]
    /\ pc' = [pc EXCEPT ![r] = "done"]
    /\ UNCHANGED <<variant, regVars, mu, crashed, cancelled, snapLen, hooks,
                   idx, tasks, atSnap>>

\* ---- shutdowner.Shutdown ----

\* mutant: Shutdown releases the lock once it has read the list's length
Shutdown_LockNotHeld(r) ==
    /\ ~crashed
    /\ variant = "shutdown"
    /\ pc[r] = "idle"
    /\ mu = 0
    /\ atSnap' = [atSnap EXCEPT ![r] = List]
    /\ snapLen' = [snapLen EXCEPT ![r] = flen]
    /\ idx' = [idx EXCEPT ![r] = flen]
    /\ IF flen = 0
       THEN /\ pc' = [pc EXCEPT ![r] = "done"]
            /\ result' = [result EXCEPT ![r] = NilResult]
       ELSE /\ pc' = [pc EXCEPT ![r] = "loop"]
            /\ UNCHANGED result
    /\ UNCHANGED <<variant, regVars, mu, crashed, cancelled, hooks, tasks, errCh,
                   closed, hookErrs>>

\* s.mu.Lock(); defer s.mu.Unlock(); the empty-list return; make(chan)
Shutdown_Lock(r) ==
    /\ ~crashed
    /\ variant = "shutdown"
    /\ pc[r] = "idle"
    /\ mu = 0
    /\ atSnap' = [atSnap EXCEPT ![r] = List]
    /\ snapLen' = [snapLen EXCEPT ![r] = flen]
    /\ idx' = [idx EXCEPT ![r] = flen]
    /\ IF flen = 0
       THEN /\ pc' = [pc EXCEPT ![r] = "done"]
            /\ result' = [result EXCEPT ![r] = NilResult]
            /\ UNCHANGED mu
       ELSE /\ pc' = [pc EXCEPT ![r] = "loop"]
            /\ mu' = r
            /\ UNCHANGED result
    /\ UNCHANGED <<variant, regVars, crashed, cancelled, hooks, tasks, errCh,
                   closed, hookErrs>>

\* s.funcs[i], read while the call holds the lock
Shutdown_Fn(r, i) == backing[i]

\* one iteration of the launch loop; after the last one the closer
\* goroutine is started and the coordinator enters its select loop
Shutdown_Launch(r) ==
    /\ ~crashed
    /\ variant = "shutdown"
    /\ pc[r] = "loop"
    /\ tasks' = [tasks EXCEPT ![r] = Append(@, Task(Shutdown_Fn(r, idx[r])))]
    /\ idx' = [idx EXCEPT ![r] = @ - 1]
    /\ pc' = [pc EXCEPT ![r] = IF idx[r] = 1 THEN "select" ELSE "loop"]
    /\ UNCHANGED <<variant, regVars, mu, crashed, cancelled, snapLen, hooks,
                   errCh, closed, hookErrs, result, atSnap>>

\* mutant: the closer goroutine closes the channel without wg.Wait()
Shutdown_CloserNoWait(r) ==
    /\ ~crashed
    /\ variant = "shutdown"
    /\ idx[r] = 0
    /\ Launched(r) > 0
    /\ ~closed[r]
    /\ closed' = [closed EXCEPT ![r] = TRUE]
    /\ UNCHANGED <<variant, regVars, mu, crashed, cancelled, pc, snapLen, hooks,
                   idx, tasks, errCh, hookErrs, result, atSnap>>

\* go func() { wg.Wait(); close(errs) }()
Shutdown_Closer(r) ==
    /\ ~crashed
    /\ variant = "shutdown"
    /\ idx[r] = 0
    /\ Launched(r) > 0
    /\ NotDone(r) = 0
    /\ ~closed[r]
    /\ closed' = [closed EXCEPT ![r] = TRUE]
    /\ UNCHANGED <<variant, regVars, mu, crashed, cancelled, pc, snapLen, hooks,
                   idx, tasks, errCh, hookErrs, result, atSnap>>

\* case err, ok := <-errs with a value: append it
Shutdown_Recv(r) ==
    /\ ~crashed
    /\ variant = "shutdown"
    /\ pc[r] = "select"
    /\ Len(errCh[r]) > 0
    /\ hookErrs' = [hookErrs EXCEPT ![r] = Append(@, Head(errCh[r]))]
    /\ errCh' = [errCh EXCEPT ![r] = Tail(@)]
    /\ UNCHANGED <<variant, regVars, mu, crashed, cancelled, pc, snapLen, hooks,
                   idx, tasks, closed, result, atSnap>>

\* mutant: the closed channel is reported before its buffered values are read
Shutdown_ClosedNoDrain(r) ==
    /\ ~crashed
    /\ variant = "shutdown"
    /\ pc[r] = "select"
    /\ closed[r]
    /\ flen' = 0
    /\ removed' = removed + flen
    /\ backing' = [c \in Cells |-> NoFn]
    /\ result' = [result EXCEPT ![r] = Join(hookErrs[r])]
    /\ pc' = [pc EXCEPT ![r] = "done"]
    /\ mu' = 0
    /\ UNCHANGED <<variant, nextId, crashed, cancelled, snapLen, hooks, idx,
                   tasks, errCh, closed, hookErrs, atSnap, ctorVars>>

\* case err, ok := <-errs with !ok: s.funcs = nil; return Join; Unlock
Shutdown_Closed(r) ==
    /\ ~crashed
    /\ variant = "shutdown"
    /\ pc[r] = "select"
    /\ Len(errCh[r]) = 0
    /\ closed[r]
    /\ flen' = 0
    /\ removed' = removed + flen
    /\ backing' = [c \in Cells |-> NoFn]
    /\ result' = [result EXCEPT ![r] = Join(hookErrs[r])]
    /\ pc' = [pc EXCEPT ![r] = "done"]
    /\ mu' = 0
    /\ UNCHANGED <<variant, nextId, crashed, cancelled, snapLen, hooks, idx,
                   tasks, errCh, closed, hookErrs, atSnap, ctorVars>>

\* case <-ctx.Done(): return Join(append(shutdownErrs, ctx.Err())...); Unlock
Shutdown_CtxDone(r) ==
    /\ ~crashed
    /\ variant = "shutdown"
    /\ pc[r] = "select"
    /\ cancelled[r]
    /\ result' = [result EXCEPT ![r] = Join(Append(hookErrs[r], CtxErr))]
    /\ pc' = [pc EXCEPT ![r] = "done"]
    /\ mu' = 0
    /\ UNCHANGED <<variant, regVars, crashed, cancelled, snapLen, hooks, idx,
                   tasks, errCh, closed, hookErrs, atSnap>>

\* ---- construction ----

\* what a constructor call hands back: which accessor, and the address
Handle(via, reg) == [via |-> via, reg |-> reg]

\* &Registry{hooks: make([]HookFunc, 0, 10)} / &shutdowner{}: a new, empty
\* registry at a new address
Alloc == Append(heap, <<>>)

\* the rest of the state, which constructors and per-registry calls leave alone
mainVars == <<variant, backing, flen, nextId, removed, mu, crashed, cancelled, runVars>>

\* mutant: hook.New() hands out the package's shared instance
Hook_NewShared ==
    /\ variant \in {"hook", "clear"}
    /\ Len(handle) < MaxNews
    /\ IF inst = 0
       THEN heap' = Alloc /\ inst' = Len(heap) + 1
       ELSE UNCHANGED <<heap, inst>>
    /\ handle' = Append(handle, Handle("New", inst'))
    /\ UNCHANGED mainVars

\* hook.New(): return &Registry{...}
Hook_New ==
    /\ variant \in {"hook", "clear"}
    /\ Len(handle) < MaxNews
    /\ heap' = Alloc
    /\ handle' = Append(handle, Handle("New", Len(heap) + 1))
    /\ UNCHANGED <<inst, mainVars>>

\* hook.Default(): defaultOnce.Do(func() { defaultRegistry = New() });
\* return defaultRegistry
Hook_Default ==
    /\ variant \in {"hook", "clear"}
    /\ Len(handle) < MaxNews
    /\ IF inst = 0
       THEN heap' = Alloc /\ inst' = Len(heap) + 1
       ELSE UNCHANGED <<heap, inst>>
    /\ handle' = Append(handle, Handle("Default", inst'))
    /\ UNCHANGED mainVars

\* shutdown.New(): once.Do(func() { inst = &shutdowner{} }); return inst
Shutdown_New ==
    /\ variant = "shutdown"
    /\ Len(handle) < MaxNews
    /\ IF inst = 0
       THEN heap' = Alloc /\ inst' = Len(heap) + 1
       ELSE UNCHANGED <<heap, inst>>
    /\ handle' = Append(handle, Handle("New", inst'))
    /\ UNCHANGED mainVars

\* Add(f) through the h-th returned registry; the callback is named by h
Reg_Add(h) ==
    /\ h \in 1..Len(handle)
    /\ Len(heap[handle[h].reg]) < ConcLen
    /\ heap' = [heap EXCEPT ![handle[h].reg] = Append(@, h)]
    /\ UNCHANGED <<handle, inst, mainVars>>

\* Clear() through the h-th returned registry
Reg_Clear(h) ==
    /\ h \in 1..Len(handle)
    /\ variant \in {"hook", "shutdown"}
    /\ heap[handle[h].reg] # <<>>
    /\ heap' = [heap EXCEPT ![handle[h].reg] = <<>>]
    /\ UNCHANGED <<handle, inst, mainVars>>

\* what a completed clearing Run or Shutdown through the h-th returned
\* registry does to its list (the retaining Run leaves it alone)
Reg_Run(h) ==
    /\ h \in 1..Len(handle)
    /\ variant \in {"clear", "shutdown"}
    /\ heap[handle[h].reg] # <<>>
    /\ heap' = [heap EXCEPT ![handle[h].reg] = <<>>]
    /\ UNCHANGED <<handle, inst, mainVars>>

\* SpecNew: constructor calls, and calls on the registries they returned
NextNew ==
    \/ Hook_New
    \/ Hook_Default
    \/ Shutdown_New
    \/ \E h \in 1..MaxNews : Reg_Add(h)
    \/ \E h \in 1..MaxNews : Reg_Clear(h)
    \/ \E h \in 1..MaxNews : Reg_Run(h)

SpecNew == Init /\ [][NextNew]_vars

\* ---- the system ----
Outcomes == {"nil", "err", "panic"}
ConcOutcomes == {"nil"}

\* the steps of one Run/Shutdown call, but for receiving an error
CallSteps(r) ==
    \/ Cancel(r)
    \/ HookRun_Snapshot(r)
    \/ HookRun_Launch(r)
    \/ HookRun_Collect(r)
    \/ ClearRun_Snapshot(r)
    \/ ClearRun_Launch(r)
    \/ ClearRun_Break(r)
    \/ ClearRun_Collect(r)
    \/ Shutdown_Lock(r)
    \/ Shutdown_Launch(r)
    \/ Shutdown_Closer(r)
    \/ Shutdown_Closed(r)
    \/ Shutdown_CtxDone(r)

\* the tasks of a call, the callbacks' outcomes drawn from outs
TaskSteps(r, outs) ==
    \/ \E k \in 1..MaxLen, out \in outs : HookTask_Return(r, k, out)
    \/ \E k \in 1..MaxLen, out \in outs : ClearTask_Return(r, k, out)
    \/ \E k \in 1..MaxLen, out \in outs : ShutdownTask_Return(r, k, out)

\* Spec: one call, with callers that register and clear concurrently
Next ==
    \/ \E k \in 0..MaxAddArgs : Add(k)
    \/ Clear
    \/ CallSteps(1)
    \/ Shutdown_Recv(1)
    \/ TaskSteps(1, Outcomes)

Spec == Init /\ [][Next]_vars

\* SpecConc: MaxRuns calls on the same registry, with shorter lists and
\* callbacks that all return nil (so that no error is ever received)
NextConc ==
    \/ \E k \in 0..MaxAddArgs : Add(k) /\ flen' <= ConcLen /\ nextId' <= ConcAdds + 1
    \/ Clear
    \/ \E r \in Runs : CallSteps(r)
    \/ \E r \in Runs : TaskSteps(r, ConcOutcomes)

SpecConc == Init /\ [][NextConc]_vars

\* SpecSeq: a retaining Registry on which a second Run is called after the
\* first has returned, the callbacks free to fail and to panic in both
\* (lists as short as under SpecConc)
InitHook == Init /\ variant = "hook"

HookCall(r) ==
    \/ Cancel(r)
    \/ HookRun_Snapshot(r)
    \/ HookRun_Launch(r)
    \/ HookRun_Collect(r)
    \/ \E k \in 1..MaxLen, out \in Outcomes : HookTask_Return(r, k, out)

NextSeq ==
    \/ \E k \in 0..MaxAddArgs : Add(k) /\ flen' <= ConcLen /\ nextId' <= ConcAdds + 1
    \/ Clear
    \/ HookCall(1)
    \/ pc[1] = "done" /\ HookCall(2)

SpecSeq == InitHook /\ [][NextSeq]_vars

\* the coordinator of a call and the closer goroutine are scheduled fairly;
\* a callback may run forever
Coordinator(r) ==
    \/ HookRun_Snapshot(r)
    \/ HookRun_Launch(r)
    \/ HookRun_Collect(r)
    \/ ClearRun_Snapshot(r)
    \/ ClearRun_Launch(r)
    \/ ClearRun_Break(r)
    \/ ClearRun_Collect(r)
    \/ Shutdown_Lock(r)
    \/ Shutdown_Launch(r)
    \/ Shutdown_Recv(r)

FairSpec ==
    /\ Init
    /\ [][Next]_vars
    /\ WF_vars(Coordinator(1))
    /\ WF_vars(Shutdown_Closer(1))
    /\ WF_vars(Shutdown_Closed(1))
    /\ WF_vars(Shutdown_CtxDone(1))


\* ---- properties ----
TaskIds(r) == 1..Len(tasks[r])
AllDone(r) == \A k \in TaskIds(r) : tasks[r][k].st = "done"
Failing(r) == {k \in TaskIds(r) : tasks[r][k].out = "err"}
Panicking(r) == {k \in TaskIds(r) : tasks[r][k].out = "panic"}
Count(e, s) == Cardinality({n \in 1..Len(s) : s[n] = e})

\* C1: aggregation completeness.  When a call has returned, its context was
\* never cancelled and its callbacks returned nil or an error, every launched
\* callback has finished, the result is nil if none failed and otherwise a
\* joined error holding each failing callback's error exactly once and
\* nothing else.
C1_AggregationComplete ==
    \A r \in Runs :
        (pc[r] = "done" /\ ~cancelled[r] /\ Panicking(r) = {}) =>
            /\ AllDone(r)
            /\ result[r].kind = IF Failing(r) = {} THEN "nil" ELSE "join"
            /\ Len(result[r].errs) = Cardinality(Failing(r))
            /\ \A k \in Failing(r) : Count(FnErr(tasks[r][k].cb), result[r].errs) = 1

\* three callbacks ran under Shutdown, two failed and one succeeded
C1_Witness ==
    /\ variant = "shutdown"
    /\ pc[1] = "done"
    /\ ~cancelled[1]
    /\ Len(tasks[1]) = 3
    /\ Cardinality(Failing(1)) = 2
    /\ Panicking(1) = {}
    /\ result[1].kind = "join"

\* C2: launch order.  In every call the tasks are launched in reverse
\* registration order: of two callbacks the call launches, the one
\* registered later is launched first.  (A callback's number is its
\* registration order; tasks[r] is in launch order.)
C2_LaunchOrder ==
    \A r \in Runs : \A k, l \in TaskIds(r) :
        k < l => tasks[r][k].cb > tasks[r][l].cb

\* C3: panic containment in both Registry.Run variants.  The process never
\* terminates on a callback's panic, and when Run has returned, every
\* launched task has finished, each panicking callback has exactly one
\* panic-derived error in the result, each failing callback exactly its own
\* error, and a callback that returned nil has none.
C3_PanicContained ==
    variant \in {"hook", "clear"} =>
        /\ ~crashed
        /\ \A r \in Runs : pc[r] = "done" =>
            /\ AllDone(r)
            /\ \A k \in TaskIds(r) :
                /\ Count(PanicErr(tasks[r][k].cb), result[r].errs)
                       = IF tasks[r][k].out = "panic" THEN 1 ELSE 0
                /\ Count(FnErr(tasks[r][k].cb), result[r].errs)
                       = IF tasks[r][k].out = "err" THEN 1 ELSE 0

\* a Run returned after one callback panicked, one failed and one succeeded
C3_Witness ==
    /\ variant \in {"hook", "clear"}
    /\ pc[1] = "done"
    /\ Len(tasks[1]) = 3
    /\ Cardinality(Panicking(1)) = 1
    /\ Cardinality(Failing(1)) = 1
    /\ Len(result[1].errs) = 2

\* C4: panic containment in Shutdown.  A panic in a registered callback
\* never terminates the process.
C4_ShutdownPanicContained ==
    variant = "shutdown" => ~crashed

Blocked(r) == \E k \in TaskIds(r) : tasks[r][k].st = "running"
HasCtxErr(r) == Count(CtxErr, result[r].errs) > 0

\* C5: mid-flight cancellation in Shutdown.  If a launched callback never
\* returns and the context is cancelled after the tasks were launched (the
\* coordinator was in its select loop with the context not yet cancelled),
\* Shutdown eventually returns with a result that includes the
\* cancellation error.
C5_ShutdownMidFlightCancel ==
    <>[]Blocked(1) =>
        [](variant = "shutdown" /\ pc[1] = "select" /\ ~cancelled[1]
              => [](cancelled[1] => <>(pc[1] = "done" /\ HasCtxErr(1))))

LaunchesFromSnapshot(r) ==
    /\ Len(tasks[r]) <= Len(atSnap[r])
    /\ \A k \in TaskIds(r) : tasks[r][k].cb = atSnap[r][Len(atSnap[r]) + 1 - k]

\* C7: snapshot isolation in the retaining Run.  Whatever Add and Clear
\* calls interleave with a call, the callbacks it launches are exactly the
\* ones registered at its snapshot (all of them once its launch loop is
\* over, none if it returned the context's error at once); a callback added
\* later is launched only by a call that snapshots later.
C7_HookSnapshotIsolation ==
    variant = "hook" => \A r \in Runs :
        /\ LaunchesFromSnapshot(r)
        /\ (pc[r] = "wait" \/ (pc[r] = "done" /\ result[r].kind # "bare"))
               => Len(tasks[r]) = Len(atSnap[r])

\* a callback was added while call 1 was in flight: call 1 launched only
\* the callback of its snapshot, the later call 2 launched both
C7_Witness ==
    /\ variant = "hook"
    /\ pc[1] = "done" /\ pc[2] = "done"
    /\ atSnap[1] = <<1>> /\ atSnap[2] = <<1, 2>>
    /\ Len(tasks[1]) = 1 /\ tasks[1][1].cb = 1
    /\ Len(tasks[2]) = 2 /\ tasks[2][1].cb = 2 /\ tasks[2][2].cb = 1

\* C8: snapshot isolation in the clearing Run.  Whatever Add calls
\* interleave with a call, the callbacks it launches are exactly the ones
\* registered at its snapshot: none added afterwards, none replaced, and,
\* if the context is not cancelled, all of them once the launch loop is over.
C8_ClearSnapshotIsolation ==
    variant = "clear" => \A r \in Runs :
        /\ LaunchesFromSnapshot(r)
        /\ (pc[r] \in {"wait", "done"} /\ ~cancelled[r])
               => Len(tasks[r]) = Len(atSnap[r])

\* C9: the lock is never held by a call while one of its callbacks is
\* executing or while its coordinator is waiting.
C9_LockNotHeldAcrossRun ==
    \A r \in Runs : mu = r => (~Blocked(r) /\ pc[r] # "select")

\* no Add has completed since call r took its (non-empty) snapshot: the
\* newest callback ever registered is the last one of that snapshot
NoAddSince(r) == atSnap[r] # <<>> /\ nextId = atSnap[r][Len(atSnap[r])] + 1

\* C10: a shutdown-mode run leaves the registry empty in every outcome.
\* For Shutdown and the clearing Run, with no Add after the run started,
\* Len() is 0 once the call has returned.
C10_ShutdownModeLeavesEmpty ==
    \A r \in Runs :
        (variant \in {"clear", "shutdown"} /\ pc[r] = "done" /\ NoAddSince(r))
            => RegLen = 0

\* the callbacks a call has launched, in launch order
LaunchedCbs(r) == [k \in 1..Len(tasks[r]) |-> tasks[r][k].cb]

\* C11: the retaining Run never modifies the registry's list: no step of a
\* Run call or of one of its tasks, whatever the outcome (nil, joined
\* failures, a panicking callback, a context cancelled at the call), changes
\* the list's contents or Len(); so a Run called after an earlier Run has
\* returned snapshots the list that Run left
C11_HookRunRetainsList ==
    [][(variant = "hook" /\ (pc' # pc \/ tasks' # tasks \/ result' # result))
          => (List' = List /\ RegLen' = RegLen)]_vars

\* both Runs have returned, the first with a panicking callback in its
\* result, and the second launched the same callbacks again
C11_Witness ==
    /\ variant = "hook"
    /\ pc[1] = "done" /\ pc[2] = "done"
    /\ \E k \in 1..Len(tasks[1]) : tasks[1][k].out = "panic"
    /\ Len(tasks[1]) >= 2
    /\ LaunchedCbs(2) = LaunchedCbs(1)
    /\ RegLen = Len(tasks[1])

\* a Registry.Run call (either variant) is made with its context already
\* cancelled: the step on which the call leaves "idle"
CalledCancelled(r) ==
    /\ variant \in {"hook", "clear"}
    /\ pc[r] = "idle" /\ cancelled[r]
    /\ pc'[r] # "idle"

\* the call returned exactly the context's error and launched nothing
ReturnedCtxErrOnly(r) ==
    /\ pc[r] = "done"
    /\ result[r] = Bare(CtxErr)
    /\ tasks[r] = <<>>

CancelledMidFlight(r) ==
    /\ variant = "shutdown"
    /\ pc[r] \in {"loop", "select"}
    /\ cancelled[r]
    /\ (idx[r] > 0 \/ NotDone(r) > 0)

\* C13: cancellation is always reported by Shutdown: once the context is
\* cancelled before all launched tasks have finished, whatever Shutdown
\* returns holds the context's cancellation error, in every scheduling of
\* the tasks, the closer goroutine and the coordinator's select
C13_CancellationReported ==
    [](CancelledMidFlight(1) => [](pc[1] = "done" => HasCtxErr(1)))

\* callbacks ever passed to Add
TotalAdded == nextId - 1

\* C14: concurrent registration safety.  Under every interleaving of Add,
\* Len, Clear and Run/Shutdown calls by several callers, no Add is lost or
\* partially applied: Len() is the number of callbacks added minus those
\* removed by clears (Clear, the clearing Run's snapshot, Shutdown's final
\* reset), hence the number added when nothing was cleared, and the list
\* holds exactly the callbacks added since the last clear, in order
C14_NoAddLost ==
    /\ RegLen = TotalAdded - removed
    /\ \A k \in 1..flen : backing[k] = removed + k

\* several calls have returned, one of them after a removal, and callbacks
\* added by other callers during the calls are registered
C14_Witness ==
    /\ \A r \in Runs : pc[r] = "done"
    /\ removed > 0
    /\ RegLen > 0
    /\ \E r \in Runs : \E k \in 1..flen : atSnap[r] # <<>> /\ backing[k] > atSnap[r][Len(atSnap[r])]

\* a New() call returns on this step
NewReturns == Len(handle') = Len(handle) + 1 /\ handle'[Len(handle')].via = "New"
\* the registry it returns is empty and is none of those returned before
FreshAndEmpty ==
    /\ heap'[handle'[Len(handle')].reg] = <<>>
    /\ \A i \in 1..Len(handle) : handle[i].reg # handle'[Len(handle')].reg

\* C15 as stated: every New() (shutdown.New and hook.New) returns a
\* registry with Len() = 0 that is distinct from every registry returned
\* earlier, so that calls on one never change the other
C15_NewIsFresh ==
    [][NewReturns => FreshAndEmpty]_vars

\* C15 amended: hook.New() returns a registry with Len() = 0 distinct from
\* every registry returned earlier (by New or Default); shutdown.New()
\* returns the package's one shutdowner on every call, whatever it holds
C15_HookNewIsFresh ==
    [][NewReturns =>
          IF variant = "shutdown"
          THEN /\ handle'[Len(handle')].reg = inst'
               /\ \A i \in 1..Len(handle) : handle[i].reg = inst'
          ELSE FreshAndEmpty]_vars

\* two registries from hook.New(), a callback added to the first only, and
\* a third from a later New() or Default()
C15_Witness ==
    /\ variant \in {"hook", "clear"}
    /\ Len(handle) = 3
    /\ handle[1].via = "New" /\ handle[2].via = "New"
    /\ Len(heap[handle[1].reg]) = 2
    /\ heap[handle[2].reg] = <<>>

\* every value sent on the call's result channel so far: those still
\* buffered and those the coordinator has taken out
Sent(r) == hookErrs[r] \o errCh[r]
\* the tasks whose send has completed
Senders(r) == {k \in TaskIds(r) : tasks[r][k].st = "done" /\ tasks[r][k].out # "nil"}

\* C16: no sender ever blocks on the result channel.  In every call of
\* Shutdown and of both Run variants no task is blocked in its send, each task
\* has sent at most one value (its returned error or its panic-derived
\* error), the values sent are those plus at most one context error sent by
\* the clearing Run's launch loop, their number never exceeds the channel's
\* capacity (the snapshot length), and the launch loop's own send always
\* finds room; tasks that finish after Shutdown returned are included
C16_NoSenderBlocks ==
    \A r \in Runs :
        /\ \A k \in TaskIds(r) : tasks[r][k].st # "sendblocked"
        /\ \A k \in Senders(r) : Count(TaskErr(tasks[r][k]), Sent(r)) = 1
        /\ Count(CtxErr, Sent(r)) <= 1
        /\ Len(Sent(r)) = Cardinality(Senders(r)) + Count(CtxErr, Sent(r))
        /\ Len(Sent(r)) <= snapLen[r]
        /\ (variant = "clear" /\ pc[r] = "loop") => Len(errCh[r]) < snapLen[r]

\* the clearing Run's launch loop sent the context error after launching all
\* but one callback, each launched task sent an error, and the channel is
\* filled to its capacity
C16_Witness ==
    /\ variant = "clear"
    /\ snapLen[1] = MaxLen
    /\ Count(CtxErr, errCh[1]) = 1
    /\ Len(errCh[1]) = snapLen[1]
    /\ \E k \in TaskIds(1) : tasks[1][k].out = "panic"

\* C17: no callback is silently dropped by the clearing Run: once its launch
\* loop is over (the call waits for its tasks or has returned), every
\* callback it removed from the registry at its snapshot has been launched
\* by it, also when the context was cancelled at the call or during the loop
C17_NoCallbackDropped ==
    \A r \in Runs :
        (variant = "clear" /\ pc[r] \in {"wait", "done"}) =>
            \A i \in 1..Len(atSnap[r]) :
                \E k \in TaskIds(r) : tasks[r][k].cb = atSnap[r][i]

\* how many tasks, over all calls, were started with callback id
Invocations(id) ==
    Cardinality({rk \in Runs \X (1..MaxLen) :
                    rk[2] <= Len(tasks[rk[1]]) /\ tasks[rk[1]][rk[2]].cb = id})
NeverCancelled == \A r \in Runs : ~cancelled[r]

\* C18: at-most-once cleanup in the shutdowner.  While no context has been
\* cancelled, over sequential and concurrent Shutdown calls interleaved with
\* Add: no callback is invoked twice; once a Shutdown call has finished its
\* launch loop every callback registered when it started has been invoked
\* exactly once; and while one of the call's callbacks has yet to be
\* launched or to return, the list still holds what it held at the start
C18_AtMostOnceCleanup ==
    (variant = "shutdown" /\ NeverCancelled) =>
        /\ \A id \in 1..TotalAdded : Invocations(id) <= 1
        /\ \A r \in Runs : pc[r] \in {"select", "done"} =>
              \A i \in 1..Len(atSnap[r]) : Invocations(atSnap[r][i]) = 1
        /\ \A r \in Runs :
              (pc[r] \in {"loop", "select"} /\ (idx[r] > 0 \/ NotDone(r) > 0))
                  => (List = atSnap[r] /\ RegLen = snapLen[r])
        /\ \A r \in Runs : (pc[r] = "done" /\ snapLen[r] > 0) => AllDone(r)

\* two Shutdown calls have returned; the first ran the callback registered
\* before it, the second the one added afterwards, once each
C18_Witness ==
    /\ variant = "shutdown" /\ NeverCancelled
    /\ \A r \in Runs : pc[r] = "done" /\ tasks[r] # <<>>
    /\ Invocations(1) = 1 /\ Invocations(2) = 1
    /\ RegLen = 0

\* a task whose send found the channel closed (a Shutdown task that
\* panicked in its callback never reached its send)
SentOnClosed(r) ==
    \E k \in TaskIds(r) :
        /\ tasks[r][k].st = "panicked"
        /\ ~(variant = "shutdown" /\ tasks[r][k].out = "panic")

\* the call returned before reaching its close: on an empty snapshot, on a
\* context cancelled at the call (Run), or through ctx.Done() (Shutdown)
ReturnedEarly(r) ==
    \/ snapLen[r] = 0
    \/ IF variant = "shutdown" THEN HasCtxErr(r) ELSE result[r] = Bare(CtxErr)

\* C19: result-channel close discipline.  In every call of Shutdown and of
\* both Run variants the channel is closed only when the launch loop is over
\* and every launched task has finished, a call that returned after
\* collecting from the channel has closed it, and no task ever sends on the closed
\* channel, also when Shutdown returned through the cancellation path while
\* tasks were still running
C19_CloseDiscipline ==
    \A r \in Runs :
        /\ closed[r] => (pc[r] \notin {"idle", "loop"} /\ AllDone(r))
        /\ (pc[r] = "done" /\ ~ReturnedEarly(r)) => closed[r]
        /\ ~SentOnClosed(r)

\* Shutdown returned through the cancellation path with a task still
\* running; the tasks then finished and the closer closed the channel, the
\* late error still in its buffer
C19_Witness ==
    /\ variant = "shutdown"
    /\ pc[1] = "done" /\ HasCtxErr(1)
    /\ Launched(1) = MaxLen
    /\ closed[1]
    /\ errCh[1] # <<>>

====
